---- MODULE Spec2Model ----
(***************************************************************************)
(* Model of the article summarizer pipeline of src/main.py:                *)
(* summarize -> crawl_url (crawler, fallback GET, clean_html) -> length    *)
(* check -> summarize_with_gemini (prompt, LLM POST) -> safe_extract_json  *)
(* -> ArticleSummary construction -> JSONResponse.                         *)
(*                                                                         *)
(* Strings that the code inspects character by character (the LLM reply,   *)
(* the URL prefix) are sequences of one-character strings.  Article text,  *)
(* of which the code only takes lengths, strip() and a prefix, is a record *)
(* of run lengths [lead, core, trail]: lead/trail are the surrounding      *)
(* whitespace, core is the stripped text.                                  *)
(***************************************************************************)
EXTENDS Integers, Sequences, FiniteSets, TLC

VARIABLES pc, url, style, crawl_url_arg, get_url_arg, crawl_result, get_resp,
          article_text, prompt, raw_text, parsed_json, response, raised,
          escaped, crawlCalls, getCalls, llmCalls, trace, fixture

vars == <<pc, url, style, crawl_url_arg, get_url_arg, crawl_result, get_resp,
          article_text, prompt, raw_text, parsed_json, response, raised,
          escaped, crawlCalls, getCalls, llmCalls, trace, fixture>>

None == [none |-> TRUE]

(***************************************************************************)
(* Character strings                                                       *)
(***************************************************************************)

\* Characters str.strip() and the regex class \s remove.
StrWs == {" ", "\t", "\n", "\r", "\f"}

\* Characters json.loads skips between tokens.
JsonWs == {" ", "\t", "\n", "\r"}

\* Characters json.loads (strict) refuses inside a string literal.
ControlChars == {"\t", "\n", "\r", "\f"}

Digits == {"0", "1", "2", "3", "4", "5", "6", "7", "8", "9"}

RECURSIVE Concat(_)
Concat(ss) == IF ss = <<>> THEN <<>> ELSE Head(ss) \o Concat(Tail(ss))

Drop(s, n) == SubSeq(s, n + 1, Len(s))

StartsWith(s, p) == Len(s) >= Len(p) /\ SubSeq(s, 1, Len(p)) = p

StartsWithAt(s, i, p) == i + Len(p) - 1 <= Len(s) /\ SubSeq(s, i, i + Len(p) - 1) = p

RECURSIVE LStrip(_)
LStrip(s) == IF s # <<>> /\ Head(s) \in StrWs THEN LStrip(Tail(s)) ELSE s

RECURSIVE RStrip(_)
RStrip(s) ==
    IF s # <<>> /\ s[Len(s)] \in StrWs THEN RStrip(SubSeq(s, 1, Len(s) - 1)) ELSE s

\* str.strip()
Strip(s) == RStrip(LStrip(s))

\* str.find(c): first index of c, 0 when absent (Python's -1).
RECURSIVE FindFrom(_, _, _)
FindFrom(s, c, i) ==
    IF i > Len(s) THEN 0 ELSE IF s[i] = c THEN i ELSE FindFrom(s, c, i + 1)

Find(s, c) == FindFrom(s, c, 1)

\* str.rfind(c): last index of c, 0 when absent.
RECURSIVE RFindFrom(_, _, _)
RFindFrom(s, c, i) ==
    IF i < 1 THEN 0 ELSE IF s[i] = c THEN i ELSE RFindFrom(s, c, i - 1)

RFind(s, c) == RFindFrom(s, c, Len(s))

\* Case folding of re.I, for the letters of the tag "json".
Lower(c) ==
    CASE c = "J" -> "j" [] c = "S" -> "s" [] c = "O" -> "o" [] c = "N" -> "n"
      [] OTHER -> c

LowerSeq(s) == [i \in 1..Len(s) |-> Lower(s[i])]

\* The backtick character (a string literal cannot hold it).
Backtick == "BACKTICK"

Fence == <<Backtick, Backtick, Backtick>>

JsonTag == <<"j", "s", "o", "n">>

(***************************************************************************)
(* json.loads                                                              *)
(***************************************************************************)

StrV(cs) == [t |-> "str", v |-> cs]
NumV(cs) == [t |-> "num", v |-> cs]
LitV(cs) == [t |-> "lit", v |-> cs]
ObjV(f)  == [t |-> "obj", v |-> f]
ArrV(vs) == [t |-> "arr", v |-> vs]

\* A raised json.JSONDecodeError.
JFail == [ok |-> FALSE, val |-> <<>>, next |-> 0]

JOk(v, n) == [ok |-> TRUE, val |-> v, next |-> n]

RECURSIVE SkipWs(_, _)
SkipWs(s, i) == IF i <= Len(s) /\ s[i] \in JsonWs THEN SkipWs(s, i + 1) ELSE i

RECURSIVE SkipDigits(_, _)
SkipDigits(s, i) == IF i <= Len(s) /\ s[i] \in Digits THEN SkipDigits(s, i + 1) ELSE i

IsDigitAt(s, i) == i <= Len(s) /\ s[i] \in Digits

Escapes ==
    ("\"" :> "\"") @@ ("\\" :> "\\") @@ ("/" :> "/") @@ ("n" :> "\n")
      @@ ("t" :> "\t") @@ ("r" :> "\r") @@ ("f" :> "\f")

\* The body of a string literal from index j (after the opening quote).
RECURSIVE ScanString(_, _, _)
ScanString(s, j, acc) ==
    IF j > Len(s) THEN JFail
    ELSE IF s[j] = "\"" THEN JOk(StrV(acc), j + 1)
    ELSE IF s[j] = "\\" THEN
        IF j + 1 <= Len(s) /\ s[j + 1] \in DOMAIN Escapes
        THEN ScanString(s, j + 2, Append(acc, Escapes[s[j + 1]]))
        ELSE JFail
    ELSE IF s[j] \in ControlChars THEN JFail
    ELSE ScanString(s, j + 1, Append(acc, s[j]))

\* The number at index i: optional minus, integer part without leading zero,
\* optional fraction, optional exponent.
ScanNumber(s, i) ==
    LET d == IF i <= Len(s) /\ s[i] = "-" THEN i + 1 ELSE i
        intEnd == IF ~IsDigitAt(s, d) THEN 0
                  ELSE IF s[d] = "0" THEN d + 1
                  ELSE SkipDigits(s, d)
        fracEnd == IF intEnd # 0 /\ intEnd <= Len(s) /\ s[intEnd] = "."
                      /\ IsDigitAt(s, intEnd + 1)
                   THEN SkipDigits(s, intEnd + 1)
                   ELSE intEnd
        sgn == IF fracEnd # 0 /\ fracEnd + 1 <= Len(s) /\ s[fracEnd + 1] \in {"-", "+"}
               THEN fracEnd + 2 ELSE fracEnd + 1
        expEnd == IF fracEnd # 0 /\ fracEnd <= Len(s) /\ s[fracEnd] \in {"e", "E"}
                     /\ IsDigitAt(s, sgn)
                  THEN SkipDigits(s, sgn)
                  ELSE fracEnd
    IN  IF intEnd = 0 THEN JFail ELSE JOk(NumV(SubSeq(s, i, expEnd - 1)), expEnd)

Literals ==
    << <<"n", "u", "l", "l">>, <<"t", "r", "u", "e">>, <<"f", "a", "l", "s", "e">> >>

LateLiterals ==
    << <<"N", "a", "N">>, <<"I", "n", "f", "i", "n", "i", "t", "y">>,
       <<"-", "I", "n", "f", "i", "n", "i", "t", "y">> >>

\* The literal among lits that starts at index i, as a parse result.
ScanLiteral(s, i, lits) ==
    IF \E k \in 1..Len(lits) : StartsWithAt(s, i, lits[k])
    THEN LET k == CHOOSE k \in 1..Len(lits) : StartsWithAt(s, i, lits[k])
         IN  JOk(LitV(lits[k]), i + Len(lits[k]))
    ELSE JFail

RECURSIVE ParseValue(_, _)
RECURSIVE ParseMembers(_, _, _)
RECURSIVE ParseElements(_, _, _)

\* The members of an object from index i, where a key must start.
ParseMembers(s, i, acc) ==
    IF i > Len(s) \/ s[i] # "\"" THEN JFail
    ELSE LET k == ScanString(s, i + 1, <<>>) IN
         IF ~k.ok THEN JFail
         ELSE LET c == SkipWs(s, k.next) IN
              IF c > Len(s) \/ s[c] # ":" THEN JFail
              ELSE LET v == ParseValue(s, SkipWs(s, c + 1)) IN
                   IF ~v.ok THEN JFail
                   ELSE LET e == SkipWs(s, v.next)
                            acc2 == (k.val.v :> v.val) @@ acc
                        IN  IF e > Len(s) THEN JFail
                            ELSE IF s[e] = "}" THEN JOk(ObjV(acc2), e + 1)
                            ELSE IF s[e] = ","
                                 THEN ParseMembers(s, SkipWs(s, e + 1), acc2)
                                 ELSE JFail

\* The elements of an array from index i, where a value must start.
ParseElements(s, i, acc) ==
    LET v == ParseValue(s, i) IN
    IF ~v.ok THEN JFail
    ELSE LET e == SkipWs(s, v.next)
             acc2 == Append(acc, v.val)
         IN  IF e > Len(s) THEN JFail
             ELSE IF s[e] = "]" THEN JOk(ArrV(acc2), e + 1)
             ELSE IF s[e] = "," THEN ParseElements(s, SkipWs(s, e + 1), acc2)
             ELSE JFail

\* The JSON value that starts at index i (the scanner's scan_once).
ParseValue(s, i) ==
    IF i > Len(s) THEN JFail
    ELSE IF s[i] = "\"" THEN ScanString(s, i + 1, <<>>)
    ELSE IF s[i] = "{" THEN
        LET j == SkipWs(s, i + 1) IN
        IF j <= Len(s) /\ s[j] = "}" THEN JOk(ObjV(<<>>), j + 1)
        ELSE ParseMembers(s, j, <<>>)
    ELSE IF s[i] = "[" THEN
        LET j == SkipWs(s, i + 1) IN
        IF j <= Len(s) /\ s[j] = "]" THEN JOk(ArrV(<<>>), j + 1)
        ELSE ParseElements(s, j, <<>>)
    ELSE IF ScanLiteral(s, i, Literals).ok THEN ScanLiteral(s, i, Literals)
    ELSE IF ScanNumber(s, i).ok THEN ScanNumber(s, i)
    ELSE ScanLiteral(s, i, LateLiterals)

\* json.loads(s): one value, whitespace around it, nothing else.
json_loads(s) ==
    LET r == ParseValue(s, SkipWs(s, 1)) IN
    IF r.ok /\ SkipWs(s, r.next) = Len(s) + 1 THEN r ELSE JFail

(***************************************************************************)
(* safe_extract_json                                                       *)
(***************************************************************************)

\* re.sub of the opening fence at the start of s (which starts with the
\* fence): the three backticks, the tag "json" in any case if it follows,
\* then all whitespace.
StripOpenFence(s) ==
    LET a == Drop(s, Len(Fence))
        b == IF Len(a) >= Len(JsonTag) /\ LowerSeq(SubSeq(a, 1, Len(JsonTag))) = JsonTag
             THEN Drop(a, Len(JsonTag))
             ELSE a
    IN  LStrip(b)

\* re.sub of the closing fence: whitespace and three backticks at the end of
\* s, the end being the end of s or the place before a final newline.
StripCloseFence(s) ==
    LET nl == s # <<>> /\ s[Len(s)] = "\n"
        t == IF nl THEN SubSeq(s, 1, Len(s) - 1) ELSE s
    IN  IF Len(t) >= Len(Fence) /\ SubSeq(t, Len(t) - Len(Fence) + 1, Len(t)) = Fence
        THEN RStrip(SubSeq(t, 1, Len(t) - Len(Fence))) \o (IF nl THEN <<"\n">> ELSE <<>>)
        ELSE s

\* The text safe_extract_json hands to json.loads.
Unfenced(raw) ==
    LET s == Strip(raw)
    IN  IF StartsWith(s, Fence) THEN StripCloseFence(StripOpenFence(s)) ELSE s

\* The mutant of safe_extract_json without the first-brace/last-brace retry.
safe_extract_json_strict(raw) == json_loads(Unfenced(raw))

\* safe_extract_json(raw): ok = FALSE is a raised json.JSONDecodeError.
safe_extract_json(raw) ==
    LET s == Unfenced(raw)
        first == json_loads(s)
        start == Find(s, "{")
        end == RFind(s, "}")
    IN  IF first.ok THEN first
        ELSE IF start # 0 /\ end # 0 /\ end > start
             THEN json_loads(SubSeq(s, start, end))
             ELSE JFail

(***************************************************************************)
(* ArticleSummary                                                          *)
(***************************************************************************)

judul == <<"j", "u", "d", "u", "l">>
tanggal == <<"t", "a", "n", "g", "g", "a", "l">>
penulis == <<"p", "e", "n", "u", "l", "i", "s">>
ringkasan == <<"r", "i", "n", "g", "k", "a", "s", "a", "n">>

\* The fields of the pydantic model, all of type str and required.
ArticleSummaryFields == {judul, tanggal, penulis, ringkasan}

\* ArticleSummary(**parsed_json): a TypeError when the value is no mapping,
\* a ValidationError when a field is missing or no string; other keys are
\* ignored.
ArticleSummary(pj) ==
    IF pj.t # "obj" THEN [ok |-> FALSE, err |-> "TypeError", val |-> <<>>]
    ELSE IF \A f \in ArticleSummaryFields : f \in DOMAIN pj.v /\ pj.v[f].t = "str"
         THEN [ok |-> TRUE, err |-> "", val |-> [f \in ArticleSummaryFields |-> pj.v[f].v]]
         ELSE [ok |-> FALSE, err |-> "ValidationError", val |-> <<>>]

(***************************************************************************)
(* Article text and clean_html                                             *)
(***************************************************************************)

Min(a, b) == IF a <= b THEN a ELSE b

\* A text of lead whitespace characters, core stripped characters (the first
\* and the last no whitespace) and trail whitespace characters.
Text(lead, core, trail) == [lead |-> lead, core |-> core, trail |-> trail]

EmptyText == Text(0, 0, 0)

\* len(text)
TextLen(t) == t.lead + t.core + t.trail

\* text.strip()
TextStrip(t) == Text(0, t.core, 0)

\* text[:n]
TextPrefix(t, n) ==
    LET l == Min(t.lead, n)
        c == Min(t.core, n - l)
    IN  Text(l, c, Min(t.trail, n - l - c))

\* An HTML document is the sequence of its top-level nodes; a node is a
\* string (tag "#text") or an element with its children.
TextNode(t) == [tag |-> "#text", text |-> t, kids |-> <<>>]

Elem(tag, kids) == [tag |-> tag, text |-> EmptyText, kids |-> kids]

StripTags == {"script", "style", "noscript"}

\* tag.decompose() of every script, style and noscript element.
RECURSIVE Decompose(_)
Decompose(ns) ==
    IF ns = <<>> THEN <<>>
    ELSE LET n == Head(ns) IN
         IF n.tag \in StripTags THEN Decompose(Tail(ns))
         ELSE <<[n EXCEPT !.kids = Decompose(n.kids)]>> \o Decompose(Tail(ns))

\* soup.find(tag): the first such element in document order, as a sequence
\* of one node, or the empty sequence (None).
RECURSIVE FindTag(_, _)
FindTag(ns, tag) ==
    IF ns = <<>> THEN <<>>
    ELSE LET n == Head(ns) IN
         IF n.tag = tag THEN <<n>>
         ELSE LET inner == FindTag(n.kids, tag) IN
              IF inner # <<>> THEN inner ELSE FindTag(Tail(ns), tag)

\* The lengths of the stripped, non-empty strings below ns, in document order.
RECURSIVE StrippedStrings(_)
StrippedStrings(ns) ==
    IF ns = <<>> THEN <<>>
    ELSE LET n == Head(ns) IN
         (IF n.tag = "#text"
          THEN (IF n.text.core > 0 THEN <<n.text.core>> ELSE <<>>)
          ELSE StrippedStrings(n.kids)) \o StrippedStrings(Tail(ns))

RECURSIVE SumSeq(_)
SumSeq(xs) == IF xs = <<>> THEN 0 ELSE Head(xs) + SumSeq(Tail(xs))

\* get_text(separator="\n", strip=True): the stripped strings joined by one
\* newline each.
GetText(ns) ==
    LET parts == StrippedStrings(ns)
    IN  IF parts = <<>> THEN EmptyText
        ELSE Text(0, SumSeq(parts) + Len(parts) - 1, 0)

\* clean_html(html)
clean_html(html) ==
    LET soup == Decompose(html)
        article == FindTag(soup, "article")
        main == FindTag(soup, "main")
        body == FindTag(soup, "body")
        main_content == IF article # <<>> THEN article[1].kids
                        ELSE IF main # <<>> THEN main[1].kids
                        ELSE IF body # <<>> THEN body[1].kids
                        ELSE soup
    IN  GetText(main_content)

(***************************************************************************)
(* Style registry, URL, responses                                          *)
(***************************************************************************)

StyleContext(name, description, prompt_addition) ==
    [name |-> name, description |-> description, prompt_addition |-> prompt_addition]

STYLE_CONTEXTS ==
    [formal |-> StyleContext("Formal", "Bahasa resmi dan akademis",
        "Gunakan bahasa formal yang sesuai untuk dokumen resmi, akademis, atau profesional. Hindari kontraksi dan gunakan struktur kalimat yang lengkap dan baku. Gunakan terminologi yang tepat dan presisi."),
     casual |-> StyleContext("Kasual", "Bahasa santai dan mudah dipahami",
        "Gunakan bahasa yang santai, ramah, dan mudah dipahami seperti berbicara dengan teman. Boleh menggunakan kontraksi dan kata-kata sehari-hari. Buatlah seperti sedang bercerita kepada teman."),
     professional |-> StyleContext("Profesional", "Bahasa bisnis dan teknis",
        "Gunakan bahasa profesional yang cocok untuk lingkungan bisnis atau kerja. Fokus pada aspek praktis, dampak, dan implikasi bisnis. Gunakan terminologi industri yang relevan."),
     journalistic |-> StyleContext("Jurnalistik", "Gaya berita dan informatif",
        "Gunakan gaya penulisan jurnalistik yang objektif, informatif, dan menarik. Fokus pada fakta-fakta penting, siapa, apa, kapan, di mana, mengapa, dan bagaimana. Gunakan lead yang kuat."),
     educational |-> StyleContext("Edukatif", "Gaya pengajaran dan pembelajaran",
        "Gunakan pendekatan edukatif seperti seorang guru atau dosen yang menjelaskan materi kepada siswa. Berikan konteks, penjelasan istilah yang mungkin tidak familiar, dan hubungkan dengan konsep yang lebih besar."),
     simple |-> StyleContext("Sederhana", "Bahasa yang sangat mudah dipahami",
        "Gunakan bahasa yang sangat sederhana dan mudah dipahami oleh semua kalangan. Hindari jargon teknis, gunakan kata-kata sehari-hari, dan jelaskan konsep rumit dengan analogi sederhana.")]

\* The mutant of StyleValid: an unknown style falls back to the default, as
\* STYLE_CONTEXTS.get(style, STYLE_CONTEXTS["casual"]) does.
StyleValidLax(s) == TRUE

\* style in STYLE_CONTEXTS
StyleValid(s) == s \in DOMAIN STYLE_CONTEXTS

\* STYLE_CONTEXTS.get(style, STYLE_CONTEXTS["casual"])
StyleConfig(s) == IF s \in DOMAIN STYLE_CONTEXTS THEN STYLE_CONTEXTS[s] ELSE STYLE_CONTEXTS["casual"]

HttpScheme == <<"h", "t", "t", "p", ":", "/", "/">>

HttpsScheme == <<"h", "t", "t", "p", "s", ":", "/", "/">>

\* The URL the pipeline fetches: https:// is put before a URL that starts
\* with neither scheme.
NormalizeUrl(u) ==
    IF StartsWith(u, HttpScheme) \/ StartsWith(u, HttpsScheme) THEN u ELSE HttpsScheme \o u

\* The minimal length of the stripped article text.
MinLen == 100

\* The longest prefix of the article text the prompt embeds.
MaxPromptText == 10000

\* The mutant of TooShort that measures the text with its surrounding
\* whitespace.
TooShortUnstripped(t) == TextLen(t) = 0 \/ TextLen(t) < MinLen

\* not article_text or len(article_text.strip()) < 100
TooShort(t) == TextLen(t) = 0 \/ TextLen(TextStrip(t)) < MinLen

\* The prompt of summarize_with_gemini: its fixed wording around the parts
\* that vary.
BuildPrompt(text, s) ==
    [style_instruction |-> StyleConfig(s).prompt_addition,
     style_name |-> StyleConfig(s).name,
     text |-> IF TextLen(text) > MaxPromptText THEN TextPrefix(text, MaxPromptText) ELSE text]

\* The classes of the exceptions the stages raise, all subclasses of Exception.
ExceptionClasses ==
    {"TimeoutError", "RuntimeError", "ConnectError", "HTTPStatusError", "KeyError",
     "JSONDecodeError", "TypeError", "ValidationError"}

\* The mutant of Catches: the handler catches the HTTP client's errors only.
CatchesHttpOnly(type) == type \in {"ConnectError", "HTTPStatusError"}

\* except Exception as e, in summarize
Catches(type) == type \in ExceptionClasses

\* The mutant of CrawlSwallows: a crawl error is not suppressed.
CrawlSwallowsNothing(type) == FALSE

\* except Exception: pass, in crawl_url
CrawlSwallows(type) == type \in ExceptionClasses

\* str(e), one text per class of e.
ExcStr(type) ==
    CASE type = "JSONDecodeError" -> "Expecting value: line 1 column 1 (char 0)"
      [] type = "ValidationError" -> "1 validation error for ArticleSummary"
      [] type = "TypeError" -> "ArticleSummary() argument after ** must be a mapping"
      [] type = "KeyError" -> "'candidates'"
      [] type = "HTTPStatusError" -> "Client error for url"
      [] type = "ConnectError" -> "All connection attempts failed"
      [] OTHER -> type

InvalidStyleResponse(s) ==
    [success |-> FALSE,
     error |-> <<"Gaya '", s, "' tidak valid. Pilih dari: ",
                 "formal, casual, professional, journalistic, educational, simple">>]

TooShortResponse ==
    [success |-> FALSE,
     error |-> <<"Artikel terlalu pendek atau tidak dapat diambil. Pastikan URL artikel valid.">>]

ExceptionResponse(type) ==
    [success |-> FALSE, error |-> <<"Gagal memproses artikel: ", ExcStr(type)>>]

SuccessResponse(summary, u, s) ==
    [success |-> TRUE, data |-> summary, url |-> u, style |-> s,
     style_info |-> STYLE_CONTEXTS[s]]

\* Where the handler is after a step: at the next stage, returned, or left by
\* an exception (caught at the end of summarize, or escaped).
Go(next) == [pc |-> next, response |-> None, raised |-> "", escaped |-> FALSE]

Return(resp) == [pc |-> "done", response |-> resp, raised |-> "", escaped |-> FALSE]

Throw(type) ==
    IF Catches(type)
    THEN [pc |-> "done", response |-> ExceptionResponse(type), raised |-> type,
          escaped |-> FALSE]
    ELSE [pc |-> "done", response |-> None, raised |-> type, escaped |-> TRUE]

Control(c) ==
    /\ pc' = c.pc
    /\ response' = c.response
    /\ raised' = c.raised
    /\ escaped' = c.escaped

\* The mutant of RaisesForStatus: the status of the response is not looked at.
RaiseForStatusNever(status) == FALSE

\* resp.raise_for_status() raises unless the status is a 2xx one.
RaisesForStatus(status) == ~(status \in 200..299)

(***************************************************************************)
(* Inputs                                                                  *)
(***************************************************************************)

\* The most whitespace characters on either side of a crawled markdown text.
MaxPad == 1

\* The most top-level nodes of a fetched HTML document.
MaxNodes == 2

\* The longest raw reply enumerated character by character.
MaxRawLen == 3

\* The longest commentary before or after a fenced reply.
MaxComment == 2

\* All sequences over alphabet of length at most n.
SeqsUpTo(alphabet, n) == UNION {[1..k -> alphabet] : k \in 0..n}

Host == <<"a", ".", "b">>

Urls == {HttpScheme \o Host, HttpsScheme \o Host, Host}

\* Every key of the registry, an unknown style and the empty one.
StyleInputs == DOMAIN STYLE_CONTEXTS \cup {"fancy", ""}

\* The markdown a crawl returns: empty (or absent), whitespace only, just
\* below and at the minimal length, and beyond the prompt's cap.
MarkdownTexts ==
    {Text(l, c, t) : l \in 0..MaxPad, t \in 0..MaxPad, c \in {0, MinLen - 1, MinLen, MaxPromptText + 1}}

HtmlItems ==
    {TextNode(Text(1, 0, 0)), TextNode(Text(0, 49, 0)), TextNode(Text(1, 100, 1)),
     Elem("script", <<TextNode(Text(0, 100, 0))>>),
     Elem("article", <<TextNode(Text(0, 50, 0))>>),
     Elem("main", <<TextNode(Text(0, 100, 0))>>),
     Elem("div", <<TextNode(Text(0, 49, 0))>>)}

\* The HTML documents of a response body: up to MaxNodes items, bare or
\* inside a body element.
HtmlDocs ==
    LET flat == SeqsUpTo(HtmlItems, MaxNodes)
    IN  flat \cup {<<Elem("body", d)>> : d \in flat \ {<<>>}}

\* The cleaned_html of a crawl result: empty (or absent), or one item.
CleanedHtmlDocs == SeqsUpTo(HtmlItems, 1)

CrawlOutcomes ==
    [kind : {"raise"}, err : {"TimeoutError", "RuntimeError"},
     markdown : {EmptyText}, cleaned_html : {<<>>}]
    \cup [kind : {"result"}, err : {""}, markdown : MarkdownTexts \ {EmptyText},
          cleaned_html : {<<>>}]
    \cup [kind : {"result"}, err : {""}, markdown : {EmptyText},
          cleaned_html : CleanedHtmlDocs]

GetOutcomes ==
    [kind : {"raise"}, err : {"ConnectError"}, status : {0}, text : {<<>>}]
    \cup [kind : {"response"}, err : {""}, status : {200, 404}, text : HtmlDocs]

Quote(cs) == <<"\"">> \o cs \o <<"\"">>

\* A serialization of the four fields of a summary, with sep after each
\* colon and comma.
Dumps(o, sep) ==
    <<"{">> \o Quote(judul) \o <<":">> \o sep \o Quote(o[judul]) \o <<",">> \o sep
      \o Quote(tanggal) \o <<":">> \o sep \o Quote(o[tanggal]) \o <<",">> \o sep
      \o Quote(penulis) \o <<":">> \o sep \o Quote(o[penulis]) \o <<",">> \o sep
      \o Quote(ringkasan) \o <<":">> \o sep \o Quote(o[ringkasan]) \o <<"}">>

Summary(j, t, p, r) ==
    (judul :> j) @@ (tanggal :> t) @@ (penulis :> p) @@ (ringkasan :> r)

SummaryX == Summary(<<"X">>, <<"2", "0", "2", "4">>, <<"Y">>, <<"Z", " ", "Z">>)

SummaryBraces == Summary(<<"A">>, <<"-">>, <<"{", "}">>, <<"B", "}", "{">>)

SummaryEmpty == Summary(<<"X">>, <<>>, <<>>, <<>>)

\* A reply that wraps ser in a fenced code block tagged json, with
\* commentary before and after the fence.
Fenced(before, ser, after) ==
    before \o Fence \o JsonTag \o <<"\n">> \o ser \o <<"\n">> \o Fence \o after

Prose == <<"o", "k", " ">>

\* The reply texts of the LLM endpoint in the pipeline.
Replies ==
    {Fenced(<<>>, Dumps(SummaryX, <<>>), <<>>),
     <<"\n">> \o Prose \o Dumps(SummaryBraces, <<" ">>) \o Prose \o <<"\n">>,
     Dumps(SummaryEmpty, <<>>),
     <<"{">> \o Quote(judul) \o <<":">> \o Quote(<<"X">>) \o <<"}">>,
     <<"{">> \o Quote(judul) \o <<":">> \o Quote(<<"X">>) \o <<",">>
        \o Quote(tanggal) \o <<":", "1", ",">> \o Quote(penulis) \o <<":">> \o Quote(<<"Y">>)
        \o <<",">> \o Quote(ringkasan) \o <<":", "n", "u", "l", "l", "}">>,
     Prose,
     Quote(Prose),
     Prose \o <<"{">> \o Prose \o <<"}">>}

LlmOutcomes ==
    [kind : {"raise"}, err : {"ConnectError", "HTTPStatusError", "KeyError"}, text : {<<>>}]
    \cup [kind : {"reply"}, err : {""}, text : Replies]

\* The inputs of the parser on its own: every short text over the
\* characters that matter to it, and the fenced replies with commentary.
RawAlphabet == {"{", "}", "\"", "1", "x", " "}

CommentAlphabet == {"x", "{", "}", "\n"}

RawTexts == SeqsUpTo(RawAlphabet, MaxRawLen)

Comments == SeqsUpTo(CommentAlphabet, MaxComment)

Fixtures ==
    [before : Comments, after : Comments,
     ser : {Dumps(SummaryX, <<>>), Dumps(SummaryBraces, <<" ">>)}]

(***************************************************************************)
(* The request                                                             *)
(***************************************************************************)

Init ==
    /\ pc = "start"
    /\ url \in Urls
    /\ style \in StyleInputs
    /\ crawl_url_arg = <<>>
    /\ get_url_arg = <<>>
    /\ crawl_result = None
    /\ get_resp = None
    /\ article_text = EmptyText
    /\ prompt = None
    /\ raw_text = <<>>
    /\ parsed_json = None
    /\ response = None
    /\ raised = ""
    /\ escaped = FALSE
    /\ crawlCalls = 0
    /\ getCalls = 0
    /\ llmCalls = 0
    /\ trace = <<>>
    /\ fixture = None

\* summarize up to the call of crawl_url: the style is validated, then the
\* URL is normalized.
Validate ==
    /\ pc = "start"
    /\ IF ~StyleValid(style)
       THEN /\ Control(Return(InvalidStyleResponse(style)))
            /\ url' = url
            /\ trace' = trace \o <<"validate">>
       ELSE /\ Control(Go("crawl"))
            /\ url' = NormalizeUrl(url)
            /\ trace' = trace \o <<"validate", "normalize">>
    /\ UNCHANGED <<style, crawl_url_arg, get_url_arg, crawl_result, get_resp,
                   article_text, prompt, raw_text, parsed_json, crawlCalls,
                   getCalls, llmCalls, fixture>>

\* crawl_url, the crawl: the markdown of the result, else its cleaned HTML
\* through clean_html, else (also after a swallowed error) on to the GET.
Crawl ==
    /\ pc = "crawl"
    /\ \E o \in CrawlOutcomes :
        /\ crawl_result' = o
        /\ IF o.kind = "raise"
           THEN /\ article_text' = article_text
                /\ Control(IF CrawlSwallows(o.err) THEN Go("get") ELSE Throw(o.err))
           ELSE IF TextLen(o.markdown) > 0
           THEN /\ article_text' = o.markdown
                /\ Control(Go("check"))
           ELSE IF o.cleaned_html # <<>>
           THEN /\ article_text' = clean_html(o.cleaned_html)
                /\ Control(Go("check"))
           ELSE /\ article_text' = article_text
                /\ Control(Go("get"))
    /\ crawl_url_arg' = url
    /\ crawlCalls' = crawlCalls + 1
    /\ trace' = Append(trace, "crawl")
    /\ UNCHANGED <<url, style, get_url_arg, get_resp, prompt, raw_text, parsed_json,
                   getCalls, llmCalls, fixture>>

\* crawl_url, the fallback: a GET of the URL, raise_for_status, clean_html.
FallbackGet ==
    /\ pc = "get"
    /\ \E o \in GetOutcomes :
        /\ get_resp' = o
        /\ IF o.kind = "raise"
           THEN /\ article_text' = article_text
                /\ Control(Throw(o.err))
           ELSE IF RaisesForStatus(o.status)
           THEN /\ article_text' = article_text
                /\ Control(Throw("HTTPStatusError"))
           ELSE /\ article_text' = clean_html(o.text)
                /\ Control(Go("check"))
    /\ get_url_arg' = url
    /\ getCalls' = getCalls + 1
    /\ trace' = Append(trace, "get")
    /\ UNCHANGED <<url, style, crawl_url_arg, crawl_result, prompt, raw_text,
                   parsed_json, crawlCalls, llmCalls, fixture>>

\* summarize after crawl_url: the length check, then summarize_with_gemini
\* up to its POST.
Check ==
    /\ pc = "check"
    /\ IF TooShort(article_text)
       THEN /\ Control(Return(TooShortResponse))
            /\ prompt' = prompt
       ELSE /\ Control(Go("llm"))
            /\ prompt' = BuildPrompt(article_text, style)
    /\ trace' = Append(trace, "check")
    /\ UNCHANGED <<url, style, crawl_url_arg, get_url_arg, crawl_result, get_resp,
                   article_text, raw_text, parsed_json, crawlCalls, getCalls,
                   llmCalls, fixture>>

\* The mutant of LlmCall that posts the prompt again after a failed call.
LlmCallRetrying ==
    /\ pc = "llm"
    /\ \E o \in LlmOutcomes :
        IF o.kind = "raise"
        THEN /\ raw_text' = raw_text
             /\ Control(IF llmCalls = 0 THEN Go("llm") ELSE Throw(o.err))
        ELSE /\ raw_text' = Strip(o.text)
             /\ Control(Go("parse"))
    /\ llmCalls' = llmCalls + 1
    /\ trace' = Append(trace, "llm")
    /\ UNCHANGED <<url, style, crawl_url_arg, get_url_arg, crawl_result, get_resp,
                   article_text, prompt, parsed_json, crawlCalls, getCalls, fixture>>

\* summarize_with_gemini, the POST: raise_for_status, the text of the first
\* candidate, stripped.
LlmCall ==
    /\ pc = "llm"
    /\ \E o \in LlmOutcomes :
        IF o.kind = "raise"
        THEN /\ raw_text' = raw_text
             /\ Control(Throw(o.err))
        ELSE /\ raw_text' = Strip(o.text)
             /\ Control(Go("parse"))
    /\ llmCalls' = llmCalls + 1
    /\ trace' = Append(trace, "llm")
    /\ UNCHANGED <<url, style, crawl_url_arg, get_url_arg, crawl_result, get_resp,
                   article_text, prompt, parsed_json, crawlCalls, getCalls, fixture>>

\* summarize_with_gemini: parsed_json = safe_extract_json(raw_text)
Parse ==
    /\ pc = "parse"
    /\ LET r == safe_extract_json(raw_text)
       IN  IF r.ok
           THEN /\ parsed_json' = r.val
                /\ Control(Go("schema"))
           ELSE /\ parsed_json' = parsed_json
                /\ Control(Throw("JSONDecodeError"))
    /\ trace' = Append(trace, "parse")
    /\ UNCHANGED <<url, style, crawl_url_arg, get_url_arg, crawl_result, get_resp,
                   article_text, prompt, raw_text, crawlCalls, getCalls, llmCalls,
                   fixture>>

\* summarize_with_gemini: the ArticleSummary of parsed_json; then summarize
\* returns the success response.
Schema ==
    /\ pc = "schema"
    /\ LET r == ArticleSummary(parsed_json)
       IN  Control(IF r.ok THEN Return(SuccessResponse(r.val, url, style))
                   ELSE Throw(r.err))
    /\ trace' = Append(trace, "schema")
    /\ UNCHANGED <<url, style, crawl_url_arg, get_url_arg, crawl_result, get_resp,
                   article_text, prompt, raw_text, parsed_json, crawlCalls, getCalls,
                   llmCalls, fixture>>

Next == Validate \/ Crawl \/ FallbackGet \/ Check \/ LlmCall \/ Parse \/ Schema

Spec == Init /\ [][Next]_vars

(***************************************************************************)
(* The parser on its own: safe_extract_json and ArticleSummary applied to  *)
(* a raw reply.                                                            *)
(***************************************************************************)

ParseInit ==
    /\ pc = "parse"
    /\ \/ /\ fixture = None
          /\ raw_text \in RawTexts
       \/ /\ fixture \in Fixtures
          /\ raw_text = Fenced(fixture.before, fixture.ser, fixture.after)
    /\ url = HttpsScheme \o Host
    /\ style = "casual"
    /\ crawl_url_arg = <<>>
    /\ get_url_arg = <<>>
    /\ crawl_result = None
    /\ get_resp = None
    /\ article_text = EmptyText
    /\ prompt = None
    /\ parsed_json = None
    /\ response = None
    /\ raised = ""
    /\ escaped = FALSE
    /\ crawlCalls = 0
    /\ getCalls = 0
    /\ llmCalls = 0
    /\ trace = <<>>

ParseNext == Parse \/ Schema

ParseSpec == ParseInit /\ [][ParseNext]_vars

(***************************************************************************)
(* Properties                                                              *)
(***************************************************************************)

\* The two variants of the response of summarize.
IsSuccess(r) ==
    /\ "success" \in DOMAIN r /\ r.success
    /\ "data" \in DOMAIN r
    /\ "error" \notin DOMAIN r

IsFailure(r) ==
    /\ "success" \in DOMAIN r /\ ~r.success
    /\ "error" \in DOMAIN r
    /\ "data" \notin DOMAIN r

Occurrences(stage) == Cardinality({i \in DOMAIN trace : trace[i] = stage})

IsPrefix(a, b) == Len(a) <= Len(b) /\ a = SubSeq(b, 1, Len(a))

StagesDirect == <<"validate", "normalize", "crawl", "check", "llm", "parse", "schema">>

StagesFallback ==
    <<"validate", "normalize", "crawl", "get", "check", "llm", "parse", "schema">>

\* C1: a request whose style is no key of the style registry ends as a
\* failure, and at no point of it has the crawler, the fallback GET or the
\* LLM endpoint been called.
C1_UnknownStyleNoNetwork ==
    style \notin DOMAIN STYLE_CONTEXTS =>
        /\ crawlCalls = 0 /\ getCalls = 0 /\ llmCalls = 0
        /\ pc \in {"start", "done"}
        /\ pc = "done" => IsFailure(response)

C1_Witness ==
    /\ pc = "done" /\ style = "fancy"
    /\ IsFailure(response)
    /\ crawlCalls = 0 /\ getCalls = 0 /\ llmCalls = 0

\* C2: whatever the stages do, summarize returns exactly one of the two
\* response variants and no exception of a stage leaves it; before that it
\* always has a next step (at the parse stage: safe_extract_json returns
\* or raises), and it takes no more steps than there are stages.
C2_AlwaysAnOutcome ==
    /\ pc = "done" => ~escaped /\ (IsSuccess(response) # IsFailure(response))
    /\ pc # "done" =>
          \/ pc = "parse" /\ safe_extract_json(raw_text).ok \in BOOLEAN
          \/ ENABLED (Validate \/ Crawl \/ FallbackGet \/ Check \/ LlmCall \/ Schema)
    /\ Len(trace) <= Len(StagesFallback)

C2_Witness ==
    /\ pc = "done" /\ raised = "TypeError"
    /\ IsFailure(response) /\ ~IsSuccess(response)

\* C3: once the length check has run, an article text that is empty or has
\* fewer than 100 characters after stripping has ended the request with
\* the too-short failure and no LLM call; any other text has let the
\* request go on to the LLM stage.
C3_LengthBoundary ==
    Occurrences("check") = 1 =>
        IF TextLen(article_text) = 0 \/ article_text.core < MinLen
        THEN pc = "done" /\ response = TooShortResponse /\ llmCalls = 0
        ELSE \/ pc \in {"llm", "parse", "schema"}
             \/ pc = "done" /\ llmCalls = 1

C3_Witness ==
    /\ pc = "done"
    /\ article_text.core = MinLen - 1 /\ TextLen(article_text) >= MinLen
    /\ response = TooShortResponse /\ llmCalls = 0

\* C4: after a crawl that raised, the error is not what ends the request:
\* the GET of the same URL follows, and when it succeeds the article text
\* is clean_html of its body, which with 100 characters or more takes the
\* request to the LLM stage.
C4_CrawlErrorFallsBack ==
    (crawl_result # None /\ crawl_result.kind = "raise") =>
        /\ raised # crawl_result.err
        /\ pc = "get" \/ (getCalls = 1 /\ get_url_arg = crawl_url_arg)
        /\ (get_resp # None /\ get_resp.kind = "response" /\ get_resp.status \in 200..299) =>
              /\ article_text = clean_html(get_resp.text)
              /\ article_text.core >= MinLen =>
                    \/ pc \in {"check", "llm", "parse", "schema"}
                    \/ pc = "done" /\ llmCalls = 1

C4_Witness ==
    /\ crawl_result # None /\ crawl_result.kind = "raise"
    /\ get_resp # None /\ get_resp.kind = "response" /\ get_resp.status = 200
    /\ get_resp.text # <<>> /\ article_text = clean_html(get_resp.text)
    /\ article_text.core >= MinLen
    /\ llmCalls = 1

\* C5: an error of the fallback GET, a network error or a status that is
\* not 2xx, ends the request with a failure that carries that error, and
\* the LLM endpoint is not called.
C5_FallbackErrorPropagates ==
    (get_resp # None /\ (get_resp.kind = "raise" \/ get_resp.status \notin 200..299)) =>
        /\ pc = "done"
        /\ raised = (IF get_resp.kind = "raise" THEN get_resp.err ELSE "HTTPStatusError")
        /\ IsFailure(response)
        /\ llmCalls = 0

C5_Witness ==
    /\ get_resp # None /\ get_resp.kind = "response" /\ get_resp.status = 404
    /\ clean_html(get_resp.text).core >= MinLen
    /\ pc = "done" /\ IsFailure(response) /\ llmCalls = 0

\* C6: the stages of a request run in the one order validation,
\* normalization, crawl, fallback GET (if any), length check, LLM call,
\* parse, schema; each network call is made at most once; a stage that
\* failed is the last one, and nothing runs after the response.
C6_StagesInOrderOnce ==
    /\ IsPrefix(trace, StagesDirect) \/ IsPrefix(trace, StagesFallback)
    /\ crawlCalls = Occurrences("crawl") /\ crawlCalls <= 1
    /\ getCalls = Occurrences("get") /\ getCalls <= 1
    /\ llmCalls = Occurrences("llm") /\ llmCalls <= 1
    /\ raised # "" => pc = "done" /\ IsFailure(response)
    /\ pc = "done" => ~ENABLED Next

C6_Witness ==
    /\ pc = "done" /\ IsSuccess(response)
    /\ trace = StagesFallback
    /\ crawlCalls = 1 /\ getCalls = 1 /\ llmCalls = 1

\* The commentary of a fenced reply leaves the braces of the object the
\* first opening and the last closing one.
Benign(f) == Find(f.before, "{") = 0 /\ Find(f.after, "}") = 0

\* C7 as amended: for a reply that wraps a serialized summary in a fence
\* tagged json, with commentary that has no opening brace before the fence
\* and no closing brace after it, safe_extract_json returns what parsing
\* the bare serialization returns.
C7_RoundTripBenign ==
    (fixture # None /\ pc # "parse" /\ Benign(fixture)) =>
        /\ json_loads(fixture.ser).ok
        /\ parsed_json = json_loads(fixture.ser).val

C7_Witness ==
    /\ fixture # None /\ pc # "parse"
    /\ Find(fixture.before, "}") # 0 /\ Find(fixture.after, "{") # 0
    /\ Benign(fixture)
    /\ parsed_json = json_loads(fixture.ser).val

\* C7 as stated: the same for any commentary before and after the fence.
C7_RoundTripAnyCommentary ==
    (fixture # None /\ pc # "parse") => parsed_json = json_loads(fixture.ser).val

\* A text with an opening brace and a closing brace after it.
HasBracePair(s) == Find(s, "{") # 0 /\ RFind(s, "}") > Find(s, "{")

\* C8 as stated: for a raw reply without an opening brace followed by a
\* closing brace, safe_extract_json raises and returns no value.
C8_NoBracesRejected ==
    (pc # "parse" /\ ~HasBracePair(raw_text)) =>
        /\ raised = "JSONDecodeError"
        /\ parsed_json = None

\* C9 as stated: the summary of a success response has the four fields as
\* strings, and its ringkasan is not empty.
C9_SynopsisNonEmpty ==
    (pc = "done" /\ IsSuccess(response)) =>
        /\ DOMAIN response.data = ArticleSummaryFields
        /\ response.data[ringkasan] # <<>>

\* C10 as stated: the failure response for a reply whose JSON is recovered
\* but lacks a required field, or has one of the wrong type, carries a
\* kind, the schema error kind and not the parse error kind.
C10_FailureTaggedWithKind ==
    (pc = "done" /\ raised = "ValidationError") =>
        /\ "kind" \in DOMAIN response
        /\ response.kind = "SchemaError"
        /\ response.kind # "ParseError"

====
